---- MODULE Spec2Model ----
(***************************************************************************)
(* Ride assignment and driver availability of the pullup backend, Redis    *)
(* variant: the driver routes of src/src/drivers.ts and the ride routes of *)
(* src/src/rides.ts (second rideRoutes definition, lines 297-1038).        *)
(*                                                                         *)
(* The store is the Redis keyspace the handlers touch: ride:<id>,          *)
(* driver:id:<id>, the sets drivers:<availability> and rides:<status>.     *)
(* Spec runs every handler to completion in one step.  SpecConc runs the   *)
(* two assignment handlers one Redis command at a time.                    *)
(***************************************************************************)
EXTENDS Integers, FiniteSets, Sequences, TLC

\* ---------------------------------------------------------------- bounds
\* Spec: drivers and rides the handlers are called on
NumDrivers == 1
NumRides == 1
\* SpecConc: drivers online, rides pending and requests in flight
NumConcDrivers == 2
NumConcRides == 2
NumSlots == 2
MaxClock == 2
MaxLat == 1

DriverIds == 1..NumDrivers
RideIds == 1..NumRides
ConcDriverIds == 1..NumConcDrivers
ConcRideIds == 1..NumConcRides
Slots == 1..NumSlots
\* latitudes a request may carry; 0 is a number and a falsy one
Lats == 0..MaxLat

\* ----------------------------------------------------------- vocabulary
\* `undefined` for an id, a latitude or a timestamp
NoId == 0
NoLat == -1
NoTime == 0

DriverStatuses == {"pending", "approved", "rejected", "suspended"}
Availabilities == {"offline", "online_free", "online_busy"}
RideStatuses == {"pending", "accepted", "in_progress", "completed", "cancelled"}

\* a key that was never set, and a key that was deleted: redis.get gives null for both
Unborn == "unborn"
Live == "live"
Gone == "gone"

VARIABLES
    ride,        \* ride:<id>
    driver,      \* driver:id:<id>
    driverSets,  \* drivers:offline, drivers:online_free, drivers:online_busy
    rideSets,    \* rides:pending, rides:accepted
    clock,       \* the time new Date() returns
    last,        \* the handler that returned last, and its response
    req          \* SpecConc: the assignment requests in flight

vars == <<ride, driver, driverSets, rideSets, clock, last, req>>

NoRide == [key |-> Unborn, status |-> "pending", driverId |-> NoId, acceptedAt |-> NoTime]
NoDriver == [key |-> Unborn, status |-> "pending", availability |-> "offline",
             currentRideId |-> NoId, latitude |-> NoLat]

RideExists(r) == ride[r].key = Live
DriverExists(d) == driver[d].key = Live

\* !driver.latitude || !driver.longitude
HasLocation(rec) == rec.latitude # NoLat /\ rec.latitude # 0

\* a request slot nobody uses
NoRequest == [kind |-> "none", pc |-> "idle", ride |-> NoId, driver |-> NoId,
              ids |-> {}, newRide |-> NoRide, newDriver |-> NoDriver,
              wrote |-> {}, events |-> <<>>, failed |-> "none", code |-> 0, lat |-> NoLat]

\* a message published on the 'rides' channel
Event(type, r, d) == [type |-> type, ride |-> r, driver |-> d]

\* what a handler answered, and the messages it published before answering
Response(op, r, d, code, evs) ==
    [op |-> op, ride |-> r, driver |-> d, code |-> code, events |-> evs]

Init ==
    /\ ride = [r \in RideIds |-> NoRide]
    /\ driver = [d \in DriverIds |-> NoDriver]
    /\ driverSets = [a \in Availabilities |-> {}]
    /\ rideSets = [s \in {"pending", "accepted"} |-> {}]
    /\ clock = 1
    /\ last = Response("none", NoId, NoId, 200, <<>>)
    /\ req = [q \in Slots |-> NoRequest]

\* ------------------------------------------------------- driver handlers
\* POST /apply
Apply(d) ==
    /\ driver[d].key = Unborn
    /\ \A e \in DOMAIN driver : e < d => driver[e].key # Unborn
    /\ driver' = [driver EXCEPT ![d] = [NoDriver EXCEPT !.key = Live]]
    /\ last' = Response("apply", NoId, d, 200, <<>>)
    /\ UNCHANGED <<ride, driverSets, rideSets, clock, req>>

\* PUT /update: {...existingDriver, ...updateData}; a field the body leaves
\* out ("" here) keeps its stored value.  No availability set is touched.
Merged(rec, st, av) ==
    [rec EXCEPT !.status = IF st = "" THEN @ ELSE st,
                !.availability = IF av = "" THEN @ ELSE av]

UpdateDriverCode(d) == IF ~DriverExists(d) THEN 404 ELSE 200

UpdateDriver(d, st, av) ==
    /\ driver' = IF UpdateDriverCode(d) = 200
                 THEN [driver EXCEPT ![d] = Merged(driver[d], st, av)]
                 ELSE driver
    /\ last' = Response("update", NoId, d, UpdateDriverCode(d), <<>>)
    /\ UNCHANGED <<ride, driverSets, rideSets, clock, req>>

\* sAdd drivers:<a>, then sRem from the other two
MoveToSet(sets, d, a) ==
    [x \in Availabilities |-> IF x = a THEN sets[x] \cup {d} ELSE sets[x] \ {d}]

\* PUT /availability
AvailabilityCodeNoRideCheck(d, av, cur) ==
    IF ~DriverExists(d) THEN 404
    ELSE IF driver[d].status # "approved" THEN 400
    ELSE 200

AvailabilityCode(d, av, cur) ==
    IF ~DriverExists(d) THEN 404
    ELSE IF driver[d].status # "approved" THEN 400
    ELSE IF av = "online_busy" /\ cur = NoId THEN 400
    ELSE IF av # "online_busy" /\ cur # NoId THEN 400
    ELSE 200

AvailabilityRecord(rec, av, cur, lat) ==
    [rec EXCEPT !.availability = av,
                !.currentRideId = IF av = "online_busy" THEN cur ELSE NoId,
                !.latitude = lat]

UpdateAvailability(d, av, cur, lat) ==
    /\ IF AvailabilityCode(d, av, cur) = 200
       THEN /\ driver' = [driver EXCEPT ![d] = AvailabilityRecord(driver[d], av, cur, lat)]
            /\ driverSets' = MoveToSet(driverSets, d, av)
       ELSE UNCHANGED <<driver, driverSets>>
    /\ last' = Response("availability", cur, d, AvailabilityCode(d, av, cur), <<>>)
    /\ UNCHANGED <<ride, rideSets, clock, req>>

\* POST /start-ride
StartRideCode(d) ==
    IF ~DriverExists(d) THEN 404
    ELSE IF driver[d].availability # "online_free" THEN 400
    ELSE 200

StartRide(d, r, lat) ==
    /\ IF StartRideCode(d) = 200
       THEN /\ driver' = [driver EXCEPT ![d] =
                    [@ EXCEPT !.availability = "online_busy",
                              !.currentRideId = r,
                              !.latitude = lat]]
            /\ driverSets' = [driverSets EXCEPT
                    !["online_busy"] = @ \cup {d},
                    !["online_free"] = @ \ {d}]
       ELSE UNCHANGED <<driver, driverSets>>
    /\ last' = Response("start-ride", r, d, StartRideCode(d), <<>>)
    /\ UNCHANGED <<ride, rideSets, clock, req>>

\* POST /complete-ride
CompleteRideCode(drv, d, r) ==
    IF drv[d].key # Live THEN 404
    ELSE IF drv[d].availability # "online_busy" \/ drv[d].currentRideId # r THEN 400
    ELSE 200

CompleteRideRecord(rec, lat) ==
    [rec EXCEPT !.availability = "online_free",
                !.currentRideId = NoId,
                !.latitude = lat]

CompleteRide(d, r, lat) ==
    /\ IF CompleteRideCode(driver, d, r) = 200
       THEN /\ driver' = [driver EXCEPT ![d] = CompleteRideRecord(@, lat)]
            /\ driverSets' = [driverSets EXCEPT
                    !["online_free"] = @ \cup {d},
                    !["online_busy"] = @ \ {d}]
       ELSE UNCHANGED <<driver, driverSets>>
    /\ last' = Response("complete-ride", r, d, CompleteRideCode(driver, d, r), <<>>)
    /\ UNCHANGED <<ride, rideSets, clock, req>>

\* PUT /:id/location
UpdateLocation(d, lat) ==
    /\ driver' = IF DriverExists(d)
                 THEN [driver EXCEPT ![d].latitude = lat]
                 ELSE driver
    /\ last' = Response("location", NoId, d, IF DriverExists(d) THEN 200 ELSE 404, <<>>)
    /\ UNCHANGED <<ride, driverSets, rideSets, clock, req>>

\* POST /approve/:id
ApproveCode(d) ==
    IF ~DriverExists(d) THEN 404
    ELSE IF driver[d].status = "approved" THEN 400
    ELSE 200

Approve(d) ==
    /\ IF ApproveCode(d) = 200
       THEN /\ driver' = [driver EXCEPT ![d].status = "approved"]
            /\ driverSets' = [driverSets EXCEPT !["offline"] = @ \cup {d}]
       ELSE UNCHANGED <<driver, driverSets>>
    /\ last' = Response("approve", NoId, d, ApproveCode(d), <<>>)
    /\ UNCHANGED <<ride, rideSets, clock, req>>

\* POST /reject/:id
Reject(d) ==
    /\ driver' = IF DriverExists(d)
                 THEN [driver EXCEPT ![d].status = "rejected"]
                 ELSE driver
    /\ last' = Response("reject", NoId, d, IF DriverExists(d) THEN 200 ELSE 404, <<>>)
    /\ UNCHANGED <<ride, driverSets, rideSets, clock, req>>

\* DELETE /:id
DeleteDriver(d) ==
    /\ IF DriverExists(d)
       THEN /\ driver' = [driver EXCEPT ![d] = [NoDriver EXCEPT !.key = Gone]]
            /\ driverSets' = [a \in Availabilities |-> driverSets[a] \ {d}]
       ELSE UNCHANGED <<driver, driverSets>>
    /\ last' = Response("delete-driver", NoId, d, IF DriverExists(d) THEN 200 ELSE 404, <<>>)
    /\ UNCHANGED <<ride, rideSets, clock, req>>

\* --------------------------------------------------------- ride handlers
\* the latitude of a ride's originCoordinates, on the meridian every driver is on:
\* the first ride starts on the equator, the next ones one degree further north each
OriginLat(r) == r - 1

\* the Haversine distance of two points of one meridian, in units of R*pi/180 km:
\* dLng = 0 leaves a = sin^2(dLat/2), so c = |dLat| in radians
Distance(lat1, lat2) == IF lat1 >= lat2 THEN lat1 - lat2 ELSE lat2 - lat1

\* POST /create
CreateRide(r) ==
    /\ ride[r].key = Unborn
    /\ \A q \in DOMAIN ride : q < r => ride[q].key # Unborn
    /\ ride' = [ride EXCEPT ![r] = [NoRide EXCEPT !.key = Live]]
    /\ rideSets' = [rideSets EXCEPT !["pending"] = @ \cup {r}]
    /\ last' = Response("create", r, NoId, 200, <<Event("rideCreated", r, NoId)>>)
    /\ UNCHANGED <<driver, driverSets, clock, req>>

\* updatedRide and updatedDriver of assign-driver and auto-assign
AssignedRide(rec, d, now) ==
    [rec EXCEPT !.driverId = d, !.status = "accepted", !.acceptedAt = now]

BusyDriverNoRide(rec, r) ==
    [rec EXCEPT !.availability = "online_busy"]

BusyDriver(rec, r) ==
    [rec EXCEPT !.availability = "online_busy", !.currentRideId = r]

\* sRem rides:pending, sAdd rides:accepted
AcceptedSets(sets, r) ==
    [sets EXCEPT !["pending"] = @ \ {r}, !["accepted"] = @ \cup {r}]

\* sRem drivers:online_free, sAdd drivers:online_busy
BusySets(sets, d) ==
    [sets EXCEPT !["online_free"] = @ \ {d}, !["online_busy"] = @ \cup {d}]

\* POST /:rideId/assign-driver
AssignCodeAcceptedToo(r, d) ==
    IF ~RideExists(r) THEN 404
    ELSE IF ride[r].status \notin {"pending", "accepted"} THEN 400
    ELSE IF ~DriverExists(d) THEN 404
    ELSE IF driver[d].availability # "online_free" THEN 400
    ELSE 200

AssignCode(r, d) ==
    IF ~RideExists(r) THEN 404
    ELSE IF ride[r].status # "pending" THEN 400
    ELSE IF ~DriverExists(d) THEN 404
    ELSE IF driver[d].availability # "online_free" THEN 400
    ELSE 200

AssignDriver(r, d) ==
    /\ IF AssignCode(r, d) = 200
       THEN /\ ride' = [ride EXCEPT ![r] = AssignedRide(@, d, clock)]
            /\ driver' = [driver EXCEPT ![d] = BusyDriver(@, r)]
            /\ rideSets' = AcceptedSets(rideSets, r)
            /\ driverSets' = BusySets(driverSets, d)
       ELSE UNCHANGED <<ride, driver, rideSets, driverSets>>
    /\ last' = Response("assign", r, d, AssignCode(r, d),
                        IF AssignCode(r, d) = 200
                        THEN <<Event("driverAssigned", r, d)>>
                        ELSE <<>>)
    /\ UNCHANGED <<clock, req>>

\* POST /:rideId/auto-assign
\* validDrivers: the members of drivers:online_free whose record exists and has a location
ValidDrivers(ids) == {d \in ids : DriverExists(d) /\ HasLocation(driver[d])}

\* validDrivers[0] after the sort by distance; sMembers gives no order, so any
\* of the nearest may come first
Nearest(ids, r) ==
    {d \in ValidDrivers(ids) : \A e \in ValidDrivers(ids) :
        Distance(driver[d].latitude, OriginLat(r)) <= Distance(driver[e].latitude, OriginLat(r))}

AutoAssignCode(r) ==
    IF ~RideExists(r) THEN 404
    ELSE IF driverSets["online_free"] = {} THEN 404
    ELSE IF ValidDrivers(driverSets["online_free"]) = {} THEN 404
    ELSE 200

AutoAssign(r) ==
    IF AutoAssignCode(r) = 200
    THEN \E d \in Nearest(driverSets["online_free"], r) :
            /\ ride' = [ride EXCEPT ![r] = AssignedRide(@, d, clock)]
            /\ driver' = [driver EXCEPT ![d] = BusyDriver(@, r)]
            /\ rideSets' = AcceptedSets(rideSets, r)
            /\ driverSets' = BusySets(driverSets, d)
            /\ last' = Response("auto-assign", r, d, 200, <<Event("driverAssigned", r, d)>>)
            /\ UNCHANGED <<clock, req>>
    ELSE /\ last' = Response("auto-assign", r, NoId, AutoAssignCode(r), <<>>)
         /\ UNCHANGED <<ride, driver, rideSets, driverSets, clock, req>>

\* PUT /:rideId/status
UpdateRideStatus(r, st) ==
    /\ ride' = IF RideExists(r) THEN [ride EXCEPT ![r].status = st] ELSE ride
    /\ last' = Response("status", r, NoId, IF RideExists(r) THEN 200 ELSE 404,
                        IF RideExists(r) THEN <<Event("rideStatusUpdate", r, NoId)>> ELSE <<>>)
    /\ UNCHANGED <<driver, driverSets, rideSets, clock, req>>

\* DELETE /:rideId
DeleteRide(r) ==
    /\ IF RideExists(r)
       THEN /\ ride' = [ride EXCEPT ![r] = [NoRide EXCEPT !.key = Gone]]
            /\ rideSets' = [s \in DOMAIN rideSets |-> rideSets[s] \ {r}]
       ELSE UNCHANGED <<ride, rideSets>>
    /\ last' = Response("delete-ride", r, NoId, IF RideExists(r) THEN 200 ELSE 404, <<>>)
    /\ UNCHANGED <<driver, driverSets, clock, req>>

\* POST /:rideId/driver-location
DriverLocationCode(r) ==
    IF ~RideExists(r) THEN 404
    ELSE IF ride[r].driverId = NoId THEN 400
    ELSE 200

RideDriverLocation(r, lat) ==
    /\ driver' = IF DriverLocationCode(r) = 200 /\ DriverExists(ride[r].driverId)
                 THEN [driver EXCEPT ![ride[r].driverId].latitude = lat]
                 ELSE driver
    /\ last' = Response("driver-location", r, NoId, DriverLocationCode(r),
                        IF DriverLocationCode(r) = 200
                        THEN <<Event("driverLocationUpdate", r, ride[r].driverId)>>
                        ELSE <<>>)
    /\ UNCHANGED <<ride, driverSets, rideSets, clock, req>>

\* time passes between two requests
Tick ==
    /\ clock < MaxClock
    /\ clock' = clock + 1
    /\ UNCHANGED <<ride, driver, driverSets, rideSets, last, req>>

DriverNext ==
    \/ \E d \in DriverIds : Apply(d)
    \/ \E d \in DriverIds, st \in DriverStatuses \cup {""}, av \in Availabilities \cup {""} :
            UpdateDriver(d, st, av)
    \/ \E d \in DriverIds, av \in Availabilities, cur \in RideIds \cup {NoId},
          lat \in Lats \cup {NoLat} : UpdateAvailability(d, av, cur, lat)
    \/ \E d \in DriverIds, r \in RideIds, lat \in Lats \cup {NoLat} : StartRide(d, r, lat)
    \/ \E d \in DriverIds, r \in RideIds, lat \in Lats \cup {NoLat} : CompleteRide(d, r, lat)
    \/ \E d \in DriverIds, lat \in Lats : UpdateLocation(d, lat)
    \/ \E d \in DriverIds : Approve(d)
    \/ \E d \in DriverIds : Reject(d)
    \/ \E d \in DriverIds : DeleteDriver(d)

RideNext ==
    \/ \E r \in RideIds : CreateRide(r)
    \/ \E r \in RideIds, d \in DriverIds : AssignDriver(r, d)
    \/ \E r \in RideIds : AutoAssign(r)
    \/ \E r \in RideIds, st \in RideStatuses : UpdateRideStatus(r, st)
    \/ \E r \in RideIds : DeleteRide(r)
    \/ \E r \in RideIds, lat \in Lats : RideDriverLocation(r, lat)

Next ==
    \/ DriverNext
    \/ RideNext
    \/ Tick

Spec == Init /\ [][Next]_vars

\* ------------------------------------------- the assignment handlers, stepwise
\* Each step is one awaited Redis command of assign-driver (rides.ts 524-597) or
\* auto-assign (rides.ts 800-895) together with the synchronous code that follows
\* it up to the next await.  All handlers share one Redis connection, so commands
\* take effect one at a time, in the order they are issued.

Finish(q, code) == [req EXCEPT ![q].pc = "done", ![q].code = code]

\* a request arrives
Start(q, kind, r, d) ==
    /\ req[q].pc = "idle"
    /\ req' = [req EXCEPT ![q] = [NoRequest EXCEPT !.kind = kind, !.pc = "getRide",
                                                    !.ride = r, !.driver = d]]
    /\ UNCHANGED <<ride, driver, driverSets, rideSets, clock, last>>

\* redis.get(`ride:${rideId}`), and assign-driver's check of ride.status
GetRide(q) ==
    /\ req[q].pc = "getRide"
    /\ LET r == req[q].ride
       IN req' = IF ~RideExists(r) THEN Finish(q, 404)
                 ELSE IF req[q].kind = "assign" /\ ride[r].status # "pending"
                      THEN Finish(q, 400)
                 ELSE [req EXCEPT ![q].newRide = ride[r],
                                  ![q].pc = IF req[q].kind = "assign"
                                            THEN "getDriver" ELSE "sMembers"]
    /\ UNCHANGED <<ride, driver, driverSets, rideSets, clock, last>>

\* assign-driver: redis.get(`driver:id:${driverId}`), the availability check, and
\* the construction of updatedRide and updatedDriver from what was read
GetDriver(q) ==
    /\ req[q].pc = "getDriver"
    /\ LET r == req[q].ride
           d == req[q].driver
       IN req' = IF ~DriverExists(d) THEN Finish(q, 404)
                 ELSE IF driver[d].availability # "online_free" THEN Finish(q, 400)
                 ELSE [req EXCEPT ![q].newRide = AssignedRide(@, d, clock),
                                  ![q].newDriver = BusyDriver(driver[d], r),
                                  ![q].pc = "setRide"]
    /\ UNCHANGED <<ride, driver, driverSets, rideSets, clock, last>>

\* auto-assign: redis.sMembers('drivers:online_free')
SMembers(q) ==
    /\ req[q].pc = "sMembers"
    /\ req' = IF driverSets["online_free"] = {} THEN Finish(q, 404)
              ELSE [req EXCEPT ![q].ids = driverSets["online_free"],
                               ![q].pc = "getDrivers"]
    /\ UNCHANGED <<ride, driver, driverSets, rideSets, clock, last>>

\* auto-assign: the Promise.all of redis.get(`driver:id:${driverId}`), issued in one
\* turn, then the sort and the construction of updatedRide and updatedDriver
GetDrivers(q) ==
    /\ req[q].pc = "getDrivers"
    /\ LET r == req[q].ride
       IN IF ValidDrivers(req[q].ids) = {}
          THEN req' = Finish(q, 404)
          ELSE \E d \in Nearest(req[q].ids, r) :
                  req' = [req EXCEPT ![q].driver = d,
                                     ![q].newRide = AssignedRide(@, d, clock),
                                     ![q].newDriver = BusyDriver(driver[d], r),
                                     ![q].pc = "setRide"]
    /\ UNCHANGED <<ride, driver, driverSets, rideSets, clock, last>>

\* redis.set(`ride:${rideId}`, updatedRide)
SetRide(q) ==
    /\ req[q].pc = "setRide"
    /\ ride' = [ride EXCEPT ![req[q].ride] = req[q].newRide]
    /\ req' = [req EXCEPT ![q].pc = "setDriver", ![q].wrote = @ \cup {"ride"}]
    /\ UNCHANGED <<driver, driverSets, rideSets, clock, last>>

\* redis.set(`driver:id:${driverId}`, updatedDriver)
SetDriver(q) ==
    /\ req[q].pc = "setDriver"
    /\ driver' = [driver EXCEPT ![req[q].driver] = req[q].newDriver]
    /\ req' = [req EXCEPT ![q].pc = "sRemPending", ![q].wrote = @ \cup {"driver"}]
    /\ UNCHANGED <<ride, driverSets, rideSets, clock, last>>

\* redis.sRem('rides:pending', rideId)
SRemPending(q) ==
    /\ req[q].pc = "sRemPending"
    /\ rideSets' = [rideSets EXCEPT !["pending"] = @ \ {req[q].ride}]
    /\ req' = [req EXCEPT ![q].pc = "sAddAccepted"]
    /\ UNCHANGED <<ride, driver, driverSets, clock, last>>

\* redis.sAdd('rides:accepted', rideId)
SAddAccepted(q) ==
    /\ req[q].pc = "sAddAccepted"
    /\ rideSets' = [rideSets EXCEPT !["accepted"] = @ \cup {req[q].ride}]
    /\ req' = [req EXCEPT ![q].pc = "sRemFree"]
    /\ UNCHANGED <<ride, driver, driverSets, clock, last>>

\* redis.sRem('drivers:online_free', driverId)
SRemFree(q) ==
    /\ req[q].pc = "sRemFree"
    /\ driverSets' = [driverSets EXCEPT !["online_free"] = @ \ {req[q].driver}]
    /\ req' = [req EXCEPT ![q].pc = "sAddBusy"]
    /\ UNCHANGED <<ride, driver, rideSets, clock, last>>

\* redis.sAdd('drivers:online_busy', driverId)
SAddBusy(q) ==
    /\ req[q].pc = "sAddBusy"
    /\ driverSets' = [driverSets EXCEPT !["online_busy"] = @ \cup {req[q].driver}]
    /\ req' = [req EXCEPT ![q].pc = "publish"]
    /\ UNCHANGED <<ride, driver, rideSets, clock, last>>

\* redis.publish('rides', driverAssigned), then the success response
PublishTwice(q) ==
    /\ req[q].pc = "publish"
    /\ req' = [Finish(q, 200) EXCEPT
                    ![q].events = @ \o << Event("driverAssigned", req[q].ride, req[q].driver),
                                          Event("driverAssigned", req[q].ride, req[q].driver) >>]
    /\ UNCHANGED <<ride, driver, driverSets, rideSets, clock, last>>

Publish(q) ==
    /\ req[q].pc = "publish"
    /\ req' = [Finish(q, 200) EXCEPT
                    ![q].events = Append(@, Event("driverAssigned", req[q].ride, req[q].driver))]
    /\ UNCHANGED <<ride, driver, driverSets, rideSets, clock, last>>

\* the awaited command rejects: the catch block answers 500
CommandFails(q) ==
    /\ req[q].pc \notin {"idle", "done"}
    /\ req' = [Finish(q, 500) EXCEPT ![q].failed = req[q].pc]
    /\ UNCHANGED <<ride, driver, driverSets, rideSets, clock, last>>

\* the store when the requests arrive: every ride pending, every driver approved,
\* online_free and located, as apply, approve, availability and create leave them
InitConc ==
    /\ ride = [r \in ConcRideIds |-> [NoRide EXCEPT !.key = Live]]
    /\ driver = [d \in ConcDriverIds |->
                    [NoDriver EXCEPT !.key = Live, !.status = "approved",
                                     !.availability = "online_free", !.latitude = d]]
    /\ driverSets = [a \in Availabilities |->
                        IF a = "online_free" THEN ConcDriverIds ELSE {}]
    /\ rideSets = [s \in {"pending", "accepted"} |->
                        IF s = "pending" THEN ConcRideIds ELSE {}]
    /\ clock = 1
    /\ last = Response("none", NoId, NoId, 200, <<>>)
    /\ req = [q \in Slots |-> NoRequest]

NextConc ==
    \/ \E q \in Slots, r \in ConcRideIds, d \in ConcDriverIds : Start(q, "assign", r, d)
    \/ \E q \in Slots, r \in ConcRideIds : Start(q, "auto", r, NoId)
    \/ \E q \in Slots : GetRide(q)
    \/ \E q \in Slots : GetDriver(q)
    \/ \E q \in Slots : SMembers(q)
    \/ \E q \in Slots : GetDrivers(q)
    \/ \E q \in Slots : SetRide(q)
    \/ \E q \in Slots : SetDriver(q)
    \/ \E q \in Slots : SRemPending(q)
    \/ \E q \in Slots : SAddAccepted(q)
    \/ \E q \in Slots : SRemFree(q)
    \/ \E q \in Slots : SAddBusy(q)
    \/ \E q \in Slots : Publish(q)
    \/ \E q \in Slots : CommandFails(q)
    \/ Tick

SpecConc == InitConc /\ [][NextConc]_vars


\* --------------------------------------- dispatch over a pool, handler by handler
\* The requests of InitConc's pool served one after the other: assignment, ride
\* status updates and ride completion, each handler run to its response.
NextDispatch ==
    \/ \E r \in ConcRideIds, d \in ConcDriverIds : AssignDriver(r, d)
    \/ \E r \in ConcRideIds : AutoAssign(r)
    \/ \E r \in ConcRideIds, st \in RideStatuses : UpdateRideStatus(r, st)
    \/ \E d \in ConcDriverIds, r \in ConcRideIds, lat \in Lats \cup {NoLat} :
            CompleteRide(d, r, lat)
    \/ Tick

SpecDispatch == InitConc /\ [][NextDispatch]_vars


\* --------------------------------------------- location updates, command by command
\* Both location handlers read the driver record, build updatedDriver from what
\* they read and write it back with a later command; other requests run between.

\* updatedDriver = {...driver, latitude, longitude, ...}
LocatedDriver(rec, lat) == [rec EXCEPT !.latitude = lat]

\* PUT /:id/location: the request arrives, redis.get(`driver:id:${driverId}`)
LocationGetDriver(q, d, lat) ==
    /\ req[q].pc = "idle"
    /\ req' = [req EXCEPT ![q] =
                IF ~DriverExists(d)
                THEN [NoRequest EXCEPT !.kind = "location", !.driver = d, !.lat = lat,
                                       !.pc = "done", !.code = 404]
                ELSE [NoRequest EXCEPT !.kind = "location", !.driver = d, !.lat = lat,
                                       !.newDriver = LocatedDriver(driver[d], lat),
                                       !.pc = "setLocation"]]
    /\ UNCHANGED <<ride, driver, driverSets, rideSets, clock, last>>

\* POST /:rideId/driver-location: the request arrives, redis.get(`ride:${rideId}`)
RideLocationGetRide(q, r, lat) ==
    /\ req[q].pc = "idle"
    /\ req' = [req EXCEPT ![q] =
                IF DriverLocationCode(r) # 200
                THEN [NoRequest EXCEPT !.kind = "rideLocation", !.ride = r, !.lat = lat,
                                       !.pc = "done", !.code = DriverLocationCode(r)]
                ELSE [NoRequest EXCEPT !.kind = "rideLocation", !.ride = r, !.lat = lat,
                                       !.driver = ride[r].driverId,
                                       !.pc = "getLocatedDriver"]]
    /\ UNCHANGED <<ride, driver, driverSets, rideSets, clock, last>>

\* POST /:rideId/driver-location: redis.get(`driver:id:${ride.driverId}`); a missing
\* driver skips the write and goes on to the publish
RideLocationGetDriver(q) ==
    /\ req[q].pc = "getLocatedDriver"
    /\ LET d == req[q].driver
       IN req' = IF ~DriverExists(d)
                 THEN [Finish(q, 200) EXCEPT
                         ![q].events = Append(@, Event("driverLocationUpdate", req[q].ride, d))]
                 ELSE [req EXCEPT ![q].newDriver = LocatedDriver(driver[d], req[q].lat),
                                  ![q].pc = "setLocation"]
    /\ UNCHANGED <<ride, driver, driverSets, rideSets, clock, last>>

\* the redis.set calls that store updatedDriver, then the response (driver-location
\* publishes driverLocationUpdate first)
LocationSet(q) ==
    /\ req[q].pc = "setLocation"
    /\ driver' = [driver EXCEPT ![req[q].driver] = req[q].newDriver]
    /\ req' = IF req[q].kind = "rideLocation"
              THEN [Finish(q, 200) EXCEPT
                      ![q].events = Append(@, Event("driverLocationUpdate",
                                                    req[q].ride, req[q].driver)),
                      ![q].wrote = @ \cup {"driver"}]
              ELSE [Finish(q, 200) EXCEPT ![q].wrote = @ \cup {"driver"}]
    /\ UNCHANGED <<ride, driverSets, rideSets, clock, last>>

\* the store when the location updates arrive: every ride pending, every driver
\* approved, online_free and located
InitLocation ==
    /\ ride = [r \in RideIds |-> [NoRide EXCEPT !.key = Live]]
    /\ driver = [d \in DriverIds |->
                    [NoDriver EXCEPT !.key = Live, !.status = "approved",
                                     !.availability = "online_free", !.latitude = d]]
    /\ driverSets = [a \in Availabilities |->
                        IF a = "online_free" THEN DriverIds ELSE {}]
    /\ rideSets = [s \in {"pending", "accepted"} |->
                        IF s = "pending" THEN RideIds ELSE {}]
    /\ clock = 1
    /\ last = Response("none", NoId, NoId, 200, <<>>)
    /\ req = [q \in Slots |-> NoRequest]

NextLocation ==
    \/ \E r \in RideIds, d \in DriverIds : AssignDriver(r, d)
    \/ \E r \in RideIds : AutoAssign(r)
    \/ \E q \in Slots, d \in DriverIds, lat \in Lats : LocationGetDriver(q, d, lat)
    \/ \E q \in Slots, r \in RideIds, lat \in Lats : RideLocationGetRide(q, r, lat)
    \/ \E q \in Slots : RideLocationGetDriver(q)
    \/ \E q \in Slots : LocationSet(q)
    \/ \E d \in DriverIds, av \in Availabilities, cur \in RideIds \cup {NoId},
          lat \in Lats \cup {NoLat} : UpdateAvailability(d, av, cur, lat)

SpecLocation == InitLocation /\ [][NextLocation]_vars


\* ------------------------------------------------ the four lookup keys of a driver
\* Redis holds a driver's record four times, under driver:id:<id>, driver:<email>,
\* driver:license:<license> and driver:plate:<plate>.  Here the store holds every
\* copy: driver[d] is the copy under driver:id:<d>, which every handler reads, and
\* the other three follow it.
\* Ids, emails, licenses and plates are numbered from 1; driver d of this section
\* has email d, license d and plate d.
KeySpan == NumDrivers + NumSlots
StoreKeys == 1..(4 * KeySpan)
EmailKey(e) == KeySpan + e
LicenseKey(l) == 2 * KeySpan + l
PlateKey(p) == 3 * KeySpan + p

\* the keys the driver handlers write
AllKeys(d) == {d, EmailKey(d), LicenseKey(d), PlateKey(d)}

\* the keys the ride handlers write
IdAndEmailKeys(d) == {d, EmailKey(d)}

\* redis.set of rec under each of the keys
SetKeys(keys, rec) == [k \in DOMAIN driver |-> IF k \in keys THEN rec ELSE driver[k]]

\* the store after apply and approve: every copy approved and offline
InitKeys ==
    /\ ride = [r \in RideIds |-> [NoRide EXCEPT !.key = Live]]
    /\ driver = [k \in StoreKeys |->
                    IF \E d \in DriverIds : k \in AllKeys(d)
                    THEN [NoDriver EXCEPT !.key = Live, !.status = "approved"]
                    ELSE NoDriver]
    /\ driverSets = [a \in Availabilities |-> IF a = "offline" THEN DriverIds ELSE {}]
    /\ rideSets = [s \in {"pending", "accepted"} |->
                        IF s = "pending" THEN RideIds ELSE {}]
    /\ clock = 1
    /\ last = Response("none", NoId, NoId, 200, <<>>)
    /\ req = [q \in Slots |-> NoRequest]

\* PUT /availability
KeysUpdateAvailability(d, av, cur, lat) ==
    /\ IF AvailabilityCode(d, av, cur) = 200
       THEN /\ driver' = SetKeys(AllKeys(d), AvailabilityRecord(driver[d], av, cur, lat))
            /\ driverSets' = MoveToSet(driverSets, d, av)
       ELSE UNCHANGED <<driver, driverSets>>
    /\ last' = Response("availability", cur, d, AvailabilityCode(d, av, cur), <<>>)
    /\ UNCHANGED <<ride, rideSets, clock, req>>

\* POST /complete-ride
KeysCompleteRide(d, r, lat) ==
    /\ IF CompleteRideCode(driver, d, r) = 200
       THEN /\ driver' = SetKeys(AllKeys(d), CompleteRideRecord(driver[d], lat))
            /\ driverSets' = [driverSets EXCEPT
                    !["online_free"] = @ \cup {d},
                    !["online_busy"] = @ \ {d}]
       ELSE UNCHANGED <<driver, driverSets>>
    /\ last' = Response("complete-ride", r, d, CompleteRideCode(driver, d, r), <<>>)
    /\ UNCHANGED <<ride, rideSets, clock, req>>

\* PUT /:id/location
KeysUpdateLocation(d, lat) ==
    /\ driver' = IF DriverExists(d)
                 THEN SetKeys(AllKeys(d), LocatedDriver(driver[d], lat))
                 ELSE driver
    /\ last' = Response("location", NoId, d, IF DriverExists(d) THEN 200 ELSE 404, <<>>)
    /\ UNCHANGED <<ride, driverSets, rideSets, clock, req>>

\* POST /:rideId/assign-driver
KeysAssignDriver(r, d) ==
    /\ IF AssignCode(r, d) = 200
       THEN /\ ride' = [ride EXCEPT ![r] = AssignedRide(@, d, clock)]
            /\ driver' = SetKeys(IdAndEmailKeys(d), BusyDriver(driver[d], r))
            /\ rideSets' = AcceptedSets(rideSets, r)
            /\ driverSets' = BusySets(driverSets, d)
       ELSE UNCHANGED <<ride, driver, rideSets, driverSets>>
    /\ last' = Response("assign", r, d, AssignCode(r, d),
                        IF AssignCode(r, d) = 200
                        THEN <<Event("driverAssigned", r, d)>>
                        ELSE <<>>)
    /\ UNCHANGED <<clock, req>>

\* POST /:rideId/auto-assign
KeysAutoAssign(r) ==
    IF AutoAssignCode(r) = 200
    THEN \E d \in Nearest(driverSets["online_free"], r) :
            /\ ride' = [ride EXCEPT ![r] = AssignedRide(@, d, clock)]
            /\ driver' = SetKeys(IdAndEmailKeys(d), BusyDriver(driver[d], r))
            /\ rideSets' = AcceptedSets(rideSets, r)
            /\ driverSets' = BusySets(driverSets, d)
            /\ last' = Response("auto-assign", r, d, 200, <<Event("driverAssigned", r, d)>>)
            /\ UNCHANGED <<clock, req>>
    ELSE /\ last' = Response("auto-assign", r, NoId, AutoAssignCode(r), <<>>)
         /\ UNCHANGED <<ride, driver, rideSets, driverSets, clock, req>>

\* POST /:rideId/driver-location
KeysRideDriverLocation(r, lat) ==
    /\ driver' = IF DriverLocationCode(r) = 200 /\ DriverExists(ride[r].driverId)
                 THEN SetKeys(IdAndEmailKeys(ride[r].driverId),
                              LocatedDriver(driver[ride[r].driverId], lat))
                 ELSE driver
    /\ last' = Response("driver-location", r, NoId, DriverLocationCode(r),
                        IF DriverLocationCode(r) = 200
                        THEN <<Event("driverLocationUpdate", r, ride[r].driverId)>>
                        ELSE <<>>)
    /\ UNCHANGED <<ride, driverSets, rideSets, clock, req>>

NextKeys ==
    \/ \E d \in DriverIds, av \in Availabilities, cur \in RideIds \cup {NoId},
          lat \in Lats \cup {NoLat} : KeysUpdateAvailability(d, av, cur, lat)
    \/ \E d \in DriverIds, r \in RideIds, lat \in Lats \cup {NoLat} :
            KeysCompleteRide(d, r, lat)
    \/ \E d \in DriverIds, lat \in Lats : KeysUpdateLocation(d, lat)
    \/ \E r \in RideIds, d \in DriverIds : KeysAssignDriver(r, d)
    \/ \E r \in RideIds : KeysAutoAssign(r)
    \/ \E r \in RideIds, lat \in Lats : KeysRideDriverLocation(r, lat)

SpecKeys == InitKeys /\ [][NextKeys]_vars


\* ------------------------------------------------- applications, command by command
\* POST /apply looks the application's email, license and plate up with three
\* redis.get calls and then stores the new driver with four redis.set calls; other
\* requests run between the commands.  The request in slot q gets driver id q.
ApplicationValues == 1..NumSlots

\* a key that holds no driver, in a store whose records carry the unique fields
NoApplication ==
    NoDriver @@ [email |-> NoId, licenseNumber |-> NoId, vehiclePlate |-> NoId]

\* newDriver
NewDriver(e, l, p) ==
    [NoApplication EXCEPT !.key = Live, !.email = e,
                          !.licenseNumber = l, !.vehiclePlate = p]

\* the request arrives with its body
ApplyStart(q, e, l, p) ==
    /\ req[q].pc = "idle"
    /\ req' = [req EXCEPT ![q] = [NoRequest EXCEPT !.kind = "apply", !.driver = q,
                                                    !.newDriver = NewDriver(e, l, p),
                                                    !.pc = "getEmail"]]
    /\ UNCHANGED <<ride, driver, driverSets, rideSets, clock, last>>

\* redis.get(`driver:${email}`): 'Driver application already exists for this email'
ApplyGetEmail(q) ==
    /\ req[q].pc = "getEmail"
    /\ req' = IF DriverExists(EmailKey(req[q].newDriver.email))
              THEN Finish(q, 400)
              ELSE [req EXCEPT ![q].pc = "getLicense"]
    /\ UNCHANGED <<ride, driver, driverSets, rideSets, clock, last>>

\* redis.get(`driver:license:${licenseNumber}`)
ApplyGetLicense(q) ==
    /\ req[q].pc = "getLicense"
    /\ req' = IF DriverExists(LicenseKey(req[q].newDriver.licenseNumber))
              THEN Finish(q, 400)
              ELSE [req EXCEPT ![q].pc = "getPlate"]
    /\ UNCHANGED <<ride, driver, driverSets, rideSets, clock, last>>

\* redis.get(`driver:plate:${vehiclePlate}`)
ApplyGetPlate(q) ==
    /\ req[q].pc = "getPlate"
    /\ req' = IF DriverExists(PlateKey(req[q].newDriver.vehiclePlate))
              THEN Finish(q, 400)
              ELSE [req EXCEPT ![q].pc = "setEmail"]
    /\ UNCHANGED <<ride, driver, driverSets, rideSets, clock, last>>

\* redis.set(`driver:${email}`, driverJson)
ApplySetEmail(q) ==
    /\ req[q].pc = "setEmail"
    /\ driver' = SetKeys({EmailKey(req[q].newDriver.email)}, req[q].newDriver)
    /\ req' = [req EXCEPT ![q].pc = "setId"]
    /\ UNCHANGED <<ride, driverSets, rideSets, clock, last>>

\* redis.set(`driver:id:${driverId}`, driverJson)
ApplySetId(q) ==
    /\ req[q].pc = "setId"
    /\ driver' = SetKeys({req[q].driver}, req[q].newDriver)
    /\ req' = [req EXCEPT ![q].pc = "setLicense", ![q].wrote = @ \cup {"driver"}]
    /\ UNCHANGED <<ride, driverSets, rideSets, clock, last>>

\* redis.set(`driver:license:${licenseNumber}`, driverJson)
ApplySetLicense(q) ==
    /\ req[q].pc = "setLicense"
    /\ driver' = SetKeys({LicenseKey(req[q].newDriver.licenseNumber)}, req[q].newDriver)
    /\ req' = [req EXCEPT ![q].pc = "setPlate"]
    /\ UNCHANGED <<ride, driverSets, rideSets, clock, last>>

\* redis.set(`driver:plate:${vehiclePlate}`, driverJson), then the success response
ApplySetPlate(q) ==
    /\ req[q].pc = "setPlate"
    /\ driver' = SetKeys({PlateKey(req[q].newDriver.vehiclePlate)}, req[q].newDriver)
    /\ req' = Finish(q, 200)
    /\ UNCHANGED <<ride, driverSets, rideSets, clock, last>>

\* DELETE /:id, run to its response: the four keys of the stored record
DeleteApplication(d) ==
    /\ IF DriverExists(d)
       THEN /\ driver' = SetKeys({d, EmailKey(driver[d].email),
                                  LicenseKey(driver[d].licenseNumber),
                                  PlateKey(driver[d].vehiclePlate)},
                                 [NoApplication EXCEPT !.key = Gone])
            /\ driverSets' = [a \in Availabilities |-> driverSets[a] \ {d}]
       ELSE UNCHANGED <<driver, driverSets>>
    /\ last' = Response("delete-driver", NoId, d, IF DriverExists(d) THEN 200 ELSE 404, <<>>)
    /\ UNCHANGED <<ride, rideSets, clock, req>>

\* the empty store
InitApply ==
    /\ ride = [r \in RideIds |-> NoRide]
    /\ driver = [k \in StoreKeys |-> NoApplication]
    /\ driverSets = [a \in Availabilities |-> {}]
    /\ rideSets = [s \in {"pending", "accepted"} |-> {}]
    /\ clock = 1
    /\ last = Response("none", NoId, NoId, 200, <<>>)
    /\ req = [q \in Slots |-> NoRequest]

NextApply ==
    \/ \E q \in Slots, e, l, p \in ApplicationValues : ApplyStart(q, e, l, p)
    \/ \E q \in Slots : ApplyGetEmail(q)
    \/ \E q \in Slots : ApplyGetLicense(q)
    \/ \E q \in Slots : ApplyGetPlate(q)
    \/ \E q \in Slots : ApplySetEmail(q)
    \/ \E q \in Slots : ApplySetId(q)
    \/ \E q \in Slots : ApplySetLicense(q)
    \/ \E q \in Slots : ApplySetPlate(q)
    \/ \E d \in Slots : DeleteApplication(d)

SpecApply == InitApply /\ [][NextApply]_vars


\* ------------------------------------------------------------ the matching engine
\* findMatches is specified (spec 4.1, 4.3) and has no code in the repository; it is
\* modelled from the specification.  Prices are the numbers parsePrice gives (0 for
\* an absent or unparseable text) in units of 0.5, distances are whole kilometres on
\* one meridian, and the score is computed in whole points.
NumMatchRides == 1
MaxVehicleType == 2

MatchRideIds == 1..NumMatchRides
VehicleTypes == 1..MaxVehicleType

DefaultLimit == 20
RideDistanceKm == 4
EstimatedPrice == 4
PricePerKm == 3
MinPricePerRide == 10

Max(a, b) == IF a >= b THEN a ELSE b
Min(a, b) == IF a <= b THEN a ELSE b

\* the drivers findMatches may be called for: one that is not stored, and every
\* stored driver with a status, an availability, a location and preferences
MatchDrivers ==
    {NoDriver} \cup
    [key : {Live}, status : DriverStatuses, availability : Availabilities,
     currentRideId : {NoId}, latitude : {NoLat, 0, 1},
     vehicleType : VehicleTypes, maxPassengers : {1, 2}, maxPickupRadiusKm : {0, 1}]

\* the rides RideRegistry.getPending() may return
PendingRides ==
    [key : {Live}, status : {"pending"}, driverId : {NoId}, acceptedAt : {NoTime},
     originLat : {0, 1}, requiredVehicleType : VehicleTypes, passengerCount : {1, 2},
     customPrice : {0, 20}]

InitMatch ==
    /\ ride \in [MatchRideIds -> PendingRides]
    /\ driver \in [{1} -> MatchDrivers]
    /\ driverSets = [a \in Availabilities |-> {}]
    /\ rideSets = [s \in {"pending", "accepted"} |-> MatchRideIds]
    /\ clock = 1
    /\ last = Response("none", NoId, NoId, 200, <<>>)
    /\ req = [q \in Slots |-> NoRequest]

\* GeoMath.driverMinPrice and GeoMath.matchScore
DriverMinPrice(pricePerKm, minPricePerRide, distanceKm) ==
    Max(pricePerKm * distanceKm, minPricePerRide)

MatchScore(distanceToPickup, maxRadius, ridePrice, driverMinPrice, rideAgeMinutes) ==
    LET distanceScore == IF maxRadius = 0 THEN 0
                         ELSE Max(0, (40 * (maxRadius - distanceToPickup)) \div maxRadius)
        profitScore == IF ridePrice <= 0 THEN 0
                       ELSE Min(40, ((ridePrice - driverMinPrice) * 100) \div ridePrice)
        freshScore == Max(0, (20 * (60 - Min(rideAgeMinutes, 60))) \div 60)
    IN distanceScore + profitScore + freshScore

\* the preconditions of findMatches, in the order they are checked
FindMatchesErrorAvailabilityFirst(d) ==
    IF ~DriverExists(d) THEN "NotFound"
    ELSE IF driver[d].availability # "online_free" THEN "Forbidden: not available"
    ELSE IF driver[d].status # "approved" THEN "Forbidden: not approved"
    ELSE IF driver[d].latitude = NoLat THEN "InvalidState: location required"
    ELSE "none"

FindMatchesError(d) ==
    IF ~DriverExists(d) THEN "NotFound"
    ELSE IF driver[d].status # "approved" THEN "Forbidden: not approved"
    ELSE IF driver[d].availability # "online_free" THEN "Forbidden: not available"
    ELSE IF driver[d].latitude = NoLat THEN "InvalidState: location required"
    ELSE "none"

RidePrice(r) == IF ride[r].customPrice # 0 THEN ride[r].customPrice ELSE EstimatedPrice

\* steps 2, 3, 4 and 8: radius, vehicle class, capacity and price floor
PassesFiltersNoClass(d, r) ==
    /\ Distance(driver[d].latitude, ride[r].originLat) <= driver[d].maxPickupRadiusKm
    /\ driver[d].maxPassengers >= ride[r].passengerCount
    /\ RidePrice(r) >= DriverMinPrice(PricePerKm, MinPricePerRide, RideDistanceKm)

PassesFilters(d, r) ==
    /\ Distance(driver[d].latitude, ride[r].originLat) <= driver[d].maxPickupRadiusKm
    /\ driver[d].vehicleType >= ride[r].requiredVehicleType
    /\ driver[d].maxPassengers >= ride[r].passengerCount
    /\ RidePrice(r) >= DriverMinPrice(PricePerKm, MinPricePerRide, RideDistanceKm)

\* step 10: the candidate emitted for a ride
Candidate(d, r) ==
    [ride |-> r,
     distanceToPickup |-> Distance(driver[d].latitude, ride[r].originLat),
     driverMinPrice |-> DriverMinPrice(PricePerKm, MinPricePerRide, RideDistanceKm),
     ridePrice |-> RidePrice(r),
     matchScore |-> MatchScore(Distance(driver[d].latitude, ride[r].originLat),
                               driver[d].maxPickupRadiusKm, RidePrice(r),
                               DriverMinPrice(PricePerKm, MinPricePerRide, RideDistanceKm),
                               clock)]

Matching(d) ==
    {r \in DOMAIN ride : RideExists(r) /\ ride[r].status = "pending"
                         /\ ride[r].driverId = NoId /\ PassesFilters(d, r)}

\* candidate a may stand before candidate b under the sort order
InOrder(sortBy, a, b) ==
    CASE sortBy = "distance" -> a.distanceToPickup <= b.distanceToPickup
      [] sortBy = "price" -> a.ridePrice >= b.ridePrice
      [] OTHER -> a.matchScore >= b.matchScore

\* the orderings of the matching rides the sort may produce (ties fall either way)
Sorted(d, sortBy) ==
    {s \in [1..Cardinality(Matching(d)) -> Matching(d)] :
        /\ \A i, j \in DOMAIN s : i # j => s[i] # s[j]
        /\ \A i, j \in DOMAIN s :
                i < j => InOrder(sortBy, Candidate(d, s[i]), Candidate(d, s[j]))}

\* findMatches(driverId, sortBy), truncated to the caller's limit
FindMatches(d, sortBy, limit) ==
    /\ IF FindMatchesError(d) # "none"
       THEN last' = [op |-> "matching", driver |-> d, error |-> FindMatchesError(d),
                     matches |-> <<>>, totalMatches |-> 0, totalPending |-> 0]
       ELSE \E s \in Sorted(d, sortBy) :
               last' = [op |-> "matching", driver |-> d, error |-> "none",
                        matches |-> [i \in 1..Min(limit, Len(s)) |-> Candidate(d, s[i])],
                        totalMatches |-> Cardinality(Matching(d)),
                        totalPending |-> Cardinality({r \in DOMAIN ride : RideExists(r)})]
    /\ UNCHANGED <<ride, driver, driverSets, rideSets, clock, req>>

NextMatch ==
    \E d \in DOMAIN driver, sortBy \in {"score", "distance", "price"},
       limit \in {1, DefaultLimit} : FindMatches(d, sortBy, limit)

SpecMatch == InitMatch /\ [][NextMatch]_vars

\* ------------------------------------------------------------------ claims

\* C1: of two manual assign requests on one pending ride that both ran to their
\* response without a store failure, exactly one answers success and the other a
\* 400; the ride then names the winner's driver and no other driver is online_busy.
C1_ExactlyOneAssignSucceeds ==
    \A p \in Slots, q \in Slots :
        (/\ p < q
         /\ req[p].kind = "assign" /\ req[q].kind = "assign"
         /\ req[p].ride = req[q].ride
         /\ req[p].pc = "done" /\ req[q].pc = "done"
         /\ {req[p].code, req[q].code} \subseteq {200, 400})
        => /\ {req[p].code, req[q].code} = {200, 400}
           /\ LET w == IF req[p].code = 200 THEN p ELSE q
              IN /\ ride[req[w].ride].driverId = req[w].driver
                 /\ \A d \in DOMAIN driver :
                        driver[d].availability = "online_busy" => d = req[w].driver

\* C2: of two assignment requests (manual or automatic) that selected the same
\* driver for two different rides and ran to their response without a store
\* failure, at most one answers success and at most one ride names the driver.
C2_DriverNotAssignedTwice ==
    \A p \in Slots, q \in Slots :
        (/\ p < q
         /\ req[p].pc = "done" /\ req[q].pc = "done"
         /\ {req[p].code, req[q].code} \subseteq {200, 400}
         /\ req[p].driver # NoId
         /\ req[p].driver = req[q].driver
         /\ req[p].ride # req[q].ride)
        => /\ ~(req[p].code = 200 /\ req[q].code = 200)
           /\ ~(/\ ride[req[p].ride].driverId = req[p].driver
                /\ ride[req[q].ride].driverId = req[q].driver)

\* C3: in every state, a request in flight or answered has written both the ride
\* record and the driver record, or neither.
C3_BothWritesOrNeither ==
    \A q \in Slots : req[q].wrote \in {{}, {"ride", "driver"}}

\* C4: manual assign called on a ride that has an assigned driver answers 400 and
\* changes neither the ride records nor the driver records.
C4_AssignedRideNotReassigned ==
    [][\A r \in DOMAIN ride, d \in DOMAIN driver :
          (AssignDriver(r, d) /\ RideExists(r) /\ ride[r].driverId # NoId)
          => (last'.code = 400 /\ ride' = ride /\ driver' = driver)]_vars

\* C5: right after a successful assign(r, d) the driver record is online_busy with
\* currentRideId = r and complete-ride(d, r) would succeed; right after a
\* successful complete-ride the driver is online_free with no currentRideId.
C5_AssignThenComplete ==
    /\ (last.op = "assign" /\ last.code = 200)
        => /\ driver[last.driver].availability = "online_busy"
           /\ driver[last.driver].currentRideId = last.ride
           /\ CompleteRideCode(driver, last.driver, last.ride) = 200
    /\ (last.op = "complete-ride" /\ last.code = 200)
        => /\ driver[last.driver].availability = "online_free"
           /\ driver[last.driver].currentRideId = NoId

\* C5 witness: complete-ride has just succeeded for the driver a ride was assigned to
C5_Witness ==
    /\ last.op = "complete-ride" /\ last.code = 200
    /\ RideExists(last.ride)
    /\ ride[last.ride].driverId = last.driver
    /\ ride[last.ride].status = "accepted"

\* C6: every stored driver has a currentRideId exactly when it is online_busy.
C6_CurrentRideIffBusy ==
    \A d \in DOMAIN driver :
        DriverExists(d) =>
            (driver[d].currentRideId # NoId <=> driver[d].availability = "online_busy")

\* C7: every stored driver whose status is not approved is offline.
C7_UnapprovedIsOffline ==
    \A d \in DOMAIN driver :
        (DriverExists(d) /\ driver[d].status # "approved")
            => driver[d].availability = "offline"

\* The statuses a ride has after assignment.  The handlers know no driver_assigned,
\* approaching_pickup or driver_arrived; the status assignment writes is accepted.
PostAssignment == {"accepted", "in_progress", "completed"}

\* C8: a stored ride has an assigned driver exactly when its status is a
\* post-assignment status; a pending or cancelled ride has none.
C8_DriverIffPostAssignment ==
    \A r \in DOMAIN ride :
        RideExists(r) =>
            (ride[r].driverId # NoId <=> ride[r].status \in PostAssignment)

\* position of a status in the lifecycle pending, accepted, in_progress, completed
Rank(st) ==
    CASE st = "pending" -> 0
      [] st = "accepted" -> 1
      [] st = "in_progress" -> 2
      [] st = "completed" -> 3
      [] st = "cancelled" -> 4

\* C9: the status of a stored ride never moves back, and never leaves completed
\* or cancelled.
C9_StatusMovesForward ==
    [][\A r \in DOMAIN ride :
          (RideExists(r) /\ ride'[r].key = Live)
          => /\ Rank(ride'[r].status) >= Rank(ride[r].status)
             /\ ride[r].status \in {"completed", "cancelled"}
                    => ride'[r].status = ride[r].status]_vars

\* C10: once a stored ride has an assigned driver, its driverId and acceptedAt
\* never change.
C10_AssignmentWrittenOnce ==
    [][\A r \in DOMAIN ride :
          (RideExists(r) /\ ride[r].driverId # NoId /\ ride'[r].key = Live)
          => /\ ride'[r].driverId = ride[r].driverId
             /\ ride'[r].acceptedAt = ride[r].acceptedAt]_vars

\* C11: a stored driver that is not approved and is offline is still offline after
\* any operation that leaves it stored.
C11_UnapprovedStaysOffline ==
    [][\A d \in DOMAIN driver :
          (/\ DriverExists(d) /\ driver'[d].key = Live
           /\ driver[d].status # "approved"
           /\ driver[d].availability = "offline")
          => driver'[d].availability = "offline"]_vars

\* C12: PUT /availability answers success only when a currentRideId comes with
\* online_busy and with nothing else; a request for online_busy without a ride id,
\* or for offline or online_free with one, is answered with an error and leaves the
\* driver record and the availability sets as they were.
C12_RideIdOnlyWithBusy ==
    [][\A d \in DOMAIN driver, av \in Availabilities,
          cur \in DOMAIN ride \cup {NoId}, lat \in Lats \cup {NoLat} :
          UpdateAvailability(d, av, cur, lat)
          => /\ last'.code = 200 => (av = "online_busy" <=> cur # NoId)
             /\ ~(av = "online_busy" <=> cur # NoId)
                    => /\ last'.code \in {400, 404}
                       /\ driver' = driver
                       /\ driverSets' = driverSets]_vars

\* C12 witness: an approved driver's request for offline or online_free that
\* carried a ride id has just been refused
C12_Witness ==
    /\ last.op = "availability" /\ last.code = 400
    /\ last.ride # NoId
    /\ DriverExists(last.driver)
    /\ driver[last.driver].status = "approved"
    /\ driver[last.driver].availability # "online_busy"

\* C13: a stored driver goes from online_busy to online_free only in a successful
\* complete-ride for that driver that names the driver's currentRideId.
C13_BusyToFreeOnlyByCompletion ==
    [][\A d \in DOMAIN driver :
          (/\ DriverExists(d) /\ driver'[d].key = Live
           /\ driver[d].availability = "online_busy"
           /\ driver'[d].availability = "online_free")
          => /\ last'.op = "complete-ride" /\ last'.code = 200
             /\ last'.driver = d
             /\ last'.ride = driver[d].currentRideId]_vars

\* C14: PUT /availability, start-ride and complete-ride with no latitude in the
\* body leave the stored latitude of the driver as it was.
C14_NoLocationKeepsLocation ==
    [][\A d \in DOMAIN driver, r \in DOMAIN ride :
          (\/ \E av \in Availabilities, cur \in {r, NoId} :
                    UpdateAvailability(d, av, cur, NoLat)
           \/ StartRide(d, r, NoLat)
           \/ CompleteRide(d, r, NoLat))
          => driver'[d].latitude = driver[d].latitude]_vars

\* an eligible driver as C15 and C16 word it: stored, approved and online_free
Eligible(d) ==
    /\ DriverExists(d)
    /\ driver[d].status = "approved"
    /\ driver[d].availability = "online_free"

\* C15, as claimed: with an eligible driver, assign-driver succeeds exactly when
\* the ride is stored with status pending or accepted, and otherwise answers 400
\* (404 for a ride that is not stored) and changes nothing.
C15_AssignablePendingOrAccepted ==
    [][\A r \in DOMAIN ride, d \in DOMAIN driver :
          (AssignDriver(r, d) /\ Eligible(d))
          => /\ last'.code = 200
                    <=> (RideExists(r) /\ ride[r].status \in {"pending", "accepted"})
             /\ last'.code # 200
                    => /\ last'.code \in {400, 404}
                       /\ UNCHANGED <<ride, driver, rideSets, driverSets>>]_vars

\* C15, amended: with an eligible driver, assign-driver succeeds exactly when the
\* ride is stored with status pending; for every other status, accepted included,
\* it answers 400 (404 for a ride that is not stored) and changes nothing.
C15_AssignablePendingOnly ==
    [][\A r \in DOMAIN ride, d \in DOMAIN driver :
          (AssignDriver(r, d) /\ Eligible(d))
          => /\ last'.code = 200 <=> (RideExists(r) /\ ride[r].status = "pending")
             /\ last'.code # 200
                    => /\ last'.code = IF RideExists(r) THEN 400 ELSE 404
                       /\ UNCHANGED <<ride, driver, rideSets, driverSets>>]_vars

\* C15 witness: assign-driver has just refused an accepted ride for an eligible driver
C15_Witness ==
    /\ last.op = "assign" /\ last.code = 400
    /\ RideExists(last.ride) /\ ride[last.ride].status = "accepted"
    /\ last.driver \in DOMAIN driver /\ Eligible(last.driver)

\* C16: assign-driver called with a driver that is not stored, not online_free or
\* not approved fails and changes neither the ride records nor the driver records.
C16_AssignOnlyEligibleDriver ==
    [][\A r \in DOMAIN ride, d \in DOMAIN driver :
          (AssignDriver(r, d) /\ ~Eligible(d))
          => /\ last'.code # 200
             /\ ride' = ride
             /\ driver' = driver]_vars

\* C17: auto-assign on a stored ride whose status is not pending or accepted
\* answers 400 and changes neither the ride records nor the driver records.
C17_AutoAssignChecksStatus ==
    [][\A r \in DOMAIN ride :
          (/\ AutoAssign(r)
           /\ RideExists(r)
           /\ ride[r].status \notin {"pending", "accepted"})
          => /\ last'.code = 400
             /\ ride' = ride
             /\ driver' = driver]_vars

\* the candidates as C18 and C19 word them: the stored drivers whose record says
\* online_free and carries a latitude (the pool the handler builds is ValidDrivers)
Candidates ==
    {e \in DOMAIN driver : /\ DriverExists(e)
                           /\ driver[e].availability = "online_free"
                           /\ driver[e].latitude # NoLat}

\* C18: auto-assign on a ride that is not stored, or when no stored driver is
\* online_free with a known location, answers 404, publishes nothing and changes
\* no ride record, no driver record and no index set.
C18_NoCandidateNotFound ==
    [][\A r \in DOMAIN ride :
          (AutoAssign(r) /\ (~RideExists(r) \/ Candidates = {}))
          => /\ last'.code = 404
             /\ last'.events = <<>>
             /\ UNCHANGED <<ride, driver, rideSets, driverSets>>]_vars

\* C19: the driver a successful auto-assign assigns was a candidate when the
\* handler ran, and no candidate was strictly closer to the ride's origin.
C19_AutoAssignPicksNearest ==
    [][\A r \in DOMAIN ride :
          (AutoAssign(r) /\ last'.code = 200)
          => /\ last'.driver \in Candidates
             /\ \A e \in Candidates :
                    Distance(driver[last'.driver].latitude, OriginLat(r))
                        <= Distance(driver[e].latitude, OriginLat(r))]_vars

\* C20: an assignment request has published nothing before it wrote both the ride
\* record and the driver record; one that answered success has published exactly
\* one driverAssigned event, carrying its ride id and driver id; one that failed a
\* check (400 or 404) has published nothing.
C20_OneEventAfterBothWrites ==
    \A q \in Slots :
        LET ev == Event("driverAssigned", req[q].ride, req[q].driver)
        IN /\ req[q].events # <<>>
                => /\ req[q].wrote = {"ride", "driver"}
                   /\ req[q].events = <<ev>>
           /\ (req[q].pc = "done" /\ req[q].code = 200) => req[q].events = <<ev>>
           /\ (req[q].pc = "done" /\ req[q].code \in {400, 404}) => req[q].events = <<>>

\* C20 witness: one request has answered success after publishing its event, and
\* another was refused by a check
C20_Witness ==
    \E p \in Slots, q \in Slots :
        /\ req[p].pc = "done" /\ req[p].code = 200 /\ Len(req[p].events) = 1
        /\ req[q].pc = "done" /\ req[q].code = 400

\* C21: an assignment request whose redis.publish failed, after it wrote the ride
\* record and the driver record, has answered success; the ride it wrote still
\* names its driver and the driver is still online_busy.
C21_PublishFailureStillSucceeds ==
    \A q \in Slots :
        (req[q].pc = "done" /\ req[q].failed = "publish")
        => /\ req[q].code = 200
           /\ ride[req[q].ride].driverId \in DOMAIN driver
           /\ driver[req[q].driver].availability = "online_busy"

\* C22: findMatches answers NotFound for a driver that is not stored, then
\* Forbidden (not approved) for a stored driver that is not approved, whatever its
\* availability and location, then Forbidden (not available) for an approved driver
\* that is not online_free, then InvalidState for one that has no location.
C22_MatchPreconditionOrder ==
    last.op = "matching"
    => LET d == last.driver
       IN /\ ~DriverExists(d) => last.error = "NotFound"
          /\ (DriverExists(d) /\ driver[d].status # "approved")
                => last.error = "Forbidden: not approved"
          /\ (/\ DriverExists(d) /\ driver[d].status = "approved"
              /\ driver[d].availability # "online_free")
                => last.error = "Forbidden: not available"
          /\ (/\ DriverExists(d) /\ driver[d].status = "approved"
              /\ driver[d].availability = "online_free"
              /\ driver[d].latitude = NoLat)
                => last.error = "InvalidState: location required"

\* C22 witness: findMatches has answered for a driver that is not approved, not
\* online_free and has no location
C22_Witness ==
    /\ last.op = "matching"
    /\ DriverExists(last.driver)
    /\ driver[last.driver].status = "rejected"
    /\ driver[last.driver].availability = "online_busy"
    /\ driver[last.driver].latitude = NoLat

\* C23: no ride in the list findMatches returns requires a vehicle class above
\* the driver's.
C23_NoMatchAboveVehicleClass ==
    last.op = "matching"
    => \A i \in DOMAIN last.matches :
            ride[last.matches[i].ride].requiredVehicleType
                <= driver[last.driver].vehicleType

\* C23 witness: findMatches has answered a list that leaves out a ride which
\* passes the radius, capacity and price filters and requires a higher class
C23_Witness ==
    /\ last.op = "matching" /\ last.error = "none"
    /\ \E r \in DOMAIN ride :
            /\ PassesFiltersNoClass(last.driver, r)
            /\ ride[r].requiredVehicleType > driver[last.driver].vehicleType
            /\ \A i \in DOMAIN last.matches : last.matches[i].ride # r

\* C24: the driver a successful auto-assign assigns had availability online_free
\* and no currentRideId in its stored record when the handler selected it.
C24_AutoAssignReadsRecord ==
    [][\A r \in DOMAIN ride :
          (AutoAssign(r) /\ last'.code = 200)
          => /\ driver[last'.driver].availability = "online_free"
             /\ driver[last'.driver].currentRideId = NoId]_vars

\* C25: the write of a location update leaves every driver's availability and
\* currentRideId as they are in the store when it is written, whatever other
\* requests ran since the update read the record.
C25_LocationKeepsAvailability ==
    [][\A q \in Slots :
          (req[q].pc = "setLocation" /\ req'[q].pc = "done" /\ req'[q].code = 200)
          => \A d \in DOMAIN driver :
                /\ driver'[d].availability = driver[d].availability
                /\ driver'[d].currentRideId = driver[d].currentRideId]_vars

\* C26: each stored approved driver is a member of the index set named by its
\* record's availability and of no other, and a driver that is not stored is a
\* member of none.
C26_DriverInExactlyItsSet ==
    \A d \in DOMAIN driver :
        /\ (DriverExists(d) /\ driver[d].status = "approved")
              => \A a \in Availabilities :
                    d \in driverSets[a] <=> a = driver[d].availability
        /\ ~DriverExists(d) => \A a \in Availabilities : d \notin driverSets[a]

\* C27: the copies of a driver stored under its email, license and plate keys are
\* identical to the copy under its id key.
C27_FourCopiesIdentical ==
    \A d \in DriverIds : \A k \in AllKeys(d) : driver[k] = driver[d]

\* C28: an online_busy driver's currentRideId is a stored ride that is neither
\* completed nor cancelled and names that driver; and a stored ride in a status
\* after assignment that is neither completed nor cancelled names a stored driver
\* whose currentRideId is that ride.
C28_BusyDriverAndRideAgree ==
    /\ \A d \in DOMAIN driver :
          (DriverExists(d) /\ driver[d].availability = "online_busy"
                           /\ driver[d].currentRideId # NoId)
          => LET r == driver[d].currentRideId
             IN /\ RideExists(r)
                /\ ride[r].status \notin {"completed", "cancelled"}
                /\ ride[r].driverId = d
    /\ \A r \in DOMAIN ride :
          (RideExists(r) /\ ride[r].status \in PostAssignment \ {"completed", "cancelled"})
          => /\ ride[r].driverId \in DOMAIN driver
             /\ DriverExists(ride[r].driverId)
             /\ driver[ride[r].driverId].currentRideId = r

\* C29: a ride id is in rides:pending exactly when the ride is stored with status
\* pending, and in rides:accepted only when it is stored with status accepted.
C29_RideSetsFollowStatus ==
    \A r \in DOMAIN ride :
        /\ r \in rideSets["pending"] <=> (RideExists(r) /\ ride[r].status = "pending")
        /\ r \in rideSets["accepted"] => (RideExists(r) /\ ride[r].status = "accepted")

\* C30: once every request has answered, no two distinct stored drivers share an
\* email, a license number or a vehicle plate.
C30_UniqueEmailLicensePlate ==
    \A i, j \in Slots :
        (/\ \A q \in Slots : req[q].pc \in {"idle", "done"}
         /\ i # j /\ DriverExists(i) /\ DriverExists(j))
        => /\ driver[i].email # driver[j].email
           /\ driver[i].licenseNumber # driver[j].licenseNumber
           /\ driver[i].vehiclePlate # driver[j].vehiclePlate
====
